---- MODULE Spec2Model ----
(***************************************************************************)
(* safe-config-service: the GasPrice validation, the Wallet/Chain          *)
(* enablement relation, the chains list endpoint (ordering, pagination),   *)
(* the safe-apps list endpoint (filter, 10 minute response cache) and the  *)
(* hex colour validator, as state machines.                                *)
(*                                                                         *)
(* Python's None is the empty set and a present value v is {v}, so that    *)
(* "x is None" is x = {} whatever the type of the value.                   *)
(***************************************************************************)
EXTENDS Integers, Sequences, FiniteSets, Bags, TLC

VARIABLES
    gasPrices,      \* the stored GasPrice rows (chains/models.py:97)
    gasLast,        \* the last GasPrice write: its record and clean()'s error map
    wallets,        \* Wallet.objects.all(): the keys of the stored wallets
    chainPks,       \* the primary keys of the stored chains
    walletChains,   \* the rows of the Wallet.chains many-to-many table: <<wallet, chain>>
    chainRows,      \* the Chain table in physical row order
    listReq,        \* the last request to the chains list endpoint
    listResp,       \* and its response
    apps,           \* the SafeApp table: id -> [visible, chain_ids]
    qParam,         \* the chainId query parameter of the last get_queryset call
    qResult,        \* and the ids of the records it returned
    now,            \* the clock of the cache, in seconds
    ticks,          \* how many times the clock has advanced
    cache,          \* the "safe-apps" cache region: key -> None or {[value, storedAt]}
    reqs,           \* the bag of safe-apps requests in flight: [pc, key, payload, hit]
    first,          \* per key: the payload that first populated the key's current window
    colorIn,        \* the string given to color_validator
    colorOk         \* whether color_validator accepted it

gasVars    == <<gasPrices, gasLast>>
walletVars == <<wallets, chainPks, walletChains>>
chainVars  == <<chainRows, listReq, listResp>>
queryVars  == <<qParam, qResult>>
cacheVars  == <<now, ticks, cache, reqs, first>>
colorVars  == <<colorIn, colorOk>>
vars == <<gasVars, walletVars, chainVars, apps, queryVars, cacheVars, colorVars>>

\* what the operations of one part leave alone
notGas    == <<walletVars, chainVars, apps, queryVars, cacheVars, colorVars>>
notWallet == <<gasVars, chainVars, apps, queryVars, cacheVars, colorVars>>
notChain  == <<gasVars, walletVars, apps, queryVars, cacheVars, colorVars>>
notQuery  == <<gasVars, walletVars, chainVars, apps, cacheVars, colorVars>>
notCache  == <<gasVars, walletVars, chainVars, queryVars, colorVars>>
notColor  == <<gasVars, walletVars, chainVars, apps, queryVars, cacheVars>>

None == {}
Some(v) == {v}
Get(o) == CHOOSE v \in o : TRUE

(***************************************************************************)
(* GasPrice (chains/models.py:97-129)                                      *)
(***************************************************************************)
\* oracle_uri is a URLField(blank=True, null=True): None, "" or a uri
OracleUris == {None, Some(""), Some("https://oracle")}
\* oracle_parameter is a CharField(blank=True, null=True)
OracleParameters == {None, Some("fast")}
\* fixed_wei_value is a Uint256Field(blank=True, null=True): 0 is a value, not None
FixedWeiValues == {None, Some(0), Some(1)}

GasPrice == [oracle_uri : OracleUris, oracle_parameter : OracleParameters,
             fixed_wei_value : FixedWeiValues]

\* GasPrice.clean with the second check missing
cleanNoParameterCheck(self) ==
    IF (self.fixed_wei_value # None) = (self.oracle_uri # None)
    THEN {"oracle_uri", "fixed_wei_value"}
    ELSE {}

\* GasPrice.clean with the exclusive-or written as "both set"
cleanBothOnly(self) ==
    IF (self.fixed_wei_value # None) /\ (self.oracle_uri # None)
    THEN {"oracle_uri", "fixed_wei_value"}
    ELSE IF self.oracle_uri # None /\ self.oracle_parameter = None
         THEN {"oracle_parameter"}
         ELSE {}

\* GasPrice.clean: the field names of the ValidationError it raises; {} when it
\* raises nothing. The first raise ends the method.
clean(self) ==
    IF (self.fixed_wei_value # None) = (self.oracle_uri # None)
    THEN {"oracle_uri", "fixed_wei_value"}
    ELSE IF self.oracle_uri # None /\ self.oracle_parameter = None
         THEN {"oracle_parameter"}
         ELSE {}

GasInit ==
    /\ gasPrices = {}
    /\ gasLast = [written |-> FALSE, record |-> None, errors |-> {}]

\* A write of a GasPrice: clean() runs before the row is saved, and a
\* ValidationError rejects the write.
WriteGasPrice ==
    \E rec \in GasPrice :
        LET errors == clean(rec) IN
        /\ gasLast' = [written |-> TRUE, record |-> Some(rec), errors |-> errors]
        /\ gasPrices' = IF errors = {} THEN gasPrices \cup {rec} ELSE gasPrices
        /\ UNCHANGED notGas

DeleteGasPrice ==
    \E rec \in gasPrices :
        /\ gasPrices' = gasPrices \ {rec}
        /\ UNCHANGED <<gasLast, notGas>>

(***************************************************************************)
(* Wallet and Chain.get_disabled_wallets (chains/models.py:87-91, 132-144) *)
(***************************************************************************)
MaxWallets == 3
MaxChainPks == 2
WalletKeys == 1..MaxWallets
ChainPkSet == 1..MaxChainPks

\* Chain.wallet_set.all(): the wallets joined to the chain by the through table
wallet_set(c) == {w \in wallets : <<w, c>> \in walletChains}

\* get_disabled_wallets without the difference
get_all_wallets(c) == wallets

\* Chain.get_disabled_wallets
get_disabled_wallets(c) == wallets \ wallet_set(c)

WalletInit ==
    /\ wallets = {}
    /\ chainPks = {}
    /\ walletChains = {}

CreateWallet ==
    \E w \in WalletKeys \ wallets :
        /\ wallets' = wallets \cup {w}
        /\ UNCHANGED <<chainPks, walletChains, notWallet>>

\* deleting a wallet deletes its rows of the many-to-many table
DeleteWallet ==
    \E w \in wallets :
        /\ wallets' = wallets \ {w}
        /\ walletChains' = {p \in walletChains : p[1] # w}
        /\ UNCHANGED <<chainPks, notWallet>>

CreateChainPk ==
    \E c \in ChainPkSet \ chainPks :
        /\ chainPks' = chainPks \cup {c}
        /\ UNCHANGED <<wallets, walletChains, notWallet>>

DeleteChainPk ==
    \E c \in chainPks :
        /\ chainPks' = chainPks \ {c}
        /\ walletChains' = {p \in walletChains : p[2] # c}
        /\ UNCHANGED <<wallets, notWallet>>

\* wallet.chains.add(chain)
EnableWallet ==
    \E w \in wallets, c \in chainPks :
        /\ <<w, c>> \notin walletChains
        /\ walletChains' = walletChains \cup {<<w, c>>}
        /\ UNCHANGED <<wallets, chainPks, notWallet>>

\* wallet.chains.remove(chain)
DisableWallet ==
    \E p \in walletChains :
        /\ walletChains' = walletChains \ {p}
        /\ UNCHANGED <<wallets, chainPks, notWallet>>

(***************************************************************************)
(* ChainsListView (chains/views.py:14-25): OrderingFilter over the fields  *)
(* relevance and name, LimitOffsetPagination with max_limit 100 and        *)
(* default_limit 10.                                                       *)
(***************************************************************************)
max_limit == 100
default_limit == 10

MaxChains == 3
Relevances == {10, 50}
Names == <<"A", "B", "C">>
NameSet == {Names[i] : i \in 1..Len(Names)}
\* the collation of the name column: "A" < "B" < "C"
NameRank(n) == CHOOSE i \in 1..Len(Names) : Names[i] = n

ChainRow == [id : 1..MaxChains, relevance : Relevances, name : NameSet]

\* one term of the ordering query parameter: "relevance", "-name", "id", ...
Term(f, d) == [field |-> f, desc |-> d]
ordering_fields == {"relevance", "name"}
\* get_default_ordering with the two fields swapped
orderingNameFirst == <<Term("name", FALSE), Term("relevance", FALSE)>>
\* ChainsListView.ordering
ordering == <<Term("relevance", FALSE), Term("name", FALSE)>>

\* OrderingFilter.remove_invalid_fields: the terms whose field, without its
\* leading "-", is one of ordering_fields
remove_invalid_fields(terms) == SelectSeq(terms, LAMBDA t : t.field \in ordering_fields)

\* OrderingFilter.get_ordering: the ordering parameter when it is given and a
\* valid term is left of it, the view's ordering otherwise
get_ordering(param) ==
    IF param # None /\ remove_invalid_fields(Get(param)) # <<>>
    THEN remove_invalid_fields(Get(param))
    ELSE ordering

KeyOf(row, f) ==
    IF f = "relevance" THEN row.relevance
    ELSE IF f = "name" THEN NameRank(row.name)
    ELSE row.id

\* ORDER BY: a sorts strictly before b
RECURSIVE Before(_, _, _)
Before(a, b, terms) ==
    IF terms = <<>> THEN FALSE
    ELSE LET t == Head(terms)
             ka == KeyOf(a, t.field)
             kb == KeyOf(b, t.field)
         IN IF ka = kb THEN Before(a, b, Tail(terms))
            ELSE IF t.desc THEN ka > kb ELSE ka < kb

\* the place of row j in the ordered result; rows the ordering does not tell
\* apart come in the order the table holds them, which is any order
Position(rows, j, terms) ==
    1 + Cardinality({k \in 1..Len(rows) :
            \/ Before(rows[k], rows[j], terms)
            \/ (k < j /\ ~Before(rows[j], rows[k], terms))})

\* queryset.order_by(*ordering)
order_by(rows, terms) ==
    LET place == [j \in 1..Len(rows) |-> Position(rows, j, terms)] @@ <<>>
    IN [p \in 1..Len(rows) |-> rows[CHOOSE j \in 1..Len(rows) : place[j] = p]]

\* a limit or offset query parameter: absent, an integer in text, or other text
Absent == [kind |-> "absent"]
IntText(n) == [kind |-> "int", v |-> n]
OtherText == [kind |-> "text"]

Min(a, b) == IF a < b THEN a ELSE b
Max(a, b) == IF a > b THEN a ELSE b

\* _positive_int that ignores the cutoff
positive_int_no_cutoff(p, strict, cutoff) ==
    IF p.kind # "int" THEN None
    ELSE IF p.v < 0 \/ (p.v = 0 /\ strict) THEN None
    ELSE Some(p.v)

\* rest_framework.pagination._positive_int: None stands for the KeyError or
\* ValueError that the callers catch
positive_int(p, strict, cutoff) ==
    IF p.kind # "int" THEN None
    ELSE IF p.v < 0 \/ (p.v = 0 /\ strict) THEN None
    ELSE IF cutoff # 0 THEN Some(Min(p.v, cutoff))
    ELSE Some(p.v)

\* LimitOffsetPagination.get_limit
get_limit(p) ==
    LET r == positive_int(p, TRUE, max_limit)
    IN IF r # None THEN Get(r) ELSE default_limit

\* LimitOffsetPagination.get_offset
get_offset(p) ==
    LET r == positive_int(p, FALSE, 0)
    IN IF r # None THEN Get(r) ELSE 0

\* LimitOffsetPagination.paginate_queryset: queryset[offset:offset + limit]
paginate_queryset(queryset, limitParam, offsetParam) ==
    LET limit == get_limit(limitParam)
        count == Len(queryset)
        offset == get_offset(offsetParam)
    IN IF count = 0 \/ offset > count THEN <<>>
       ELSE SubSeq(queryset, offset + 1, Min(offset + limit, count))

\* ListAPIView.list: filter_queryset, paginate_queryset, get_paginated_response
list(rows, req) ==
    LET queryset == order_by(rows, get_ordering(req.ordering))
    IN [count |-> Len(rows),
        results |-> paginate_queryset(queryset, req.limit, req.offset)]

OrderingParams ==
    {None, Some(<<>>)}
    \cup {Some(<<Term(f, d)>>) : f \in {"relevance", "name", "id"}, d \in BOOLEAN}
    \cup {Some(<<Term("relevance", FALSE), Term("name", FALSE)>>),
          Some(<<Term("relevance", TRUE), Term("name", FALSE)>>),
          Some(<<Term("name", FALSE), Term("relevance", TRUE)>>),
          Some(<<Term("id", TRUE), Term("name", TRUE)>>),
          Some(<<Term("id", FALSE), Term("id", TRUE)>>)}

LimitParams ==
    {Absent, OtherText} \cup
    {IntText(n) : n \in {-1, 0, 1, default_limit, max_limit - 1, max_limit,
                          max_limit + 1, 5 * max_limit}}
OffsetParams == {Absent, OtherText} \cup {IntText(n) : n \in {-1, 0, 3, 2 * max_limit}}

\* listReq and listResp hold one request and its response until the client has it
NoRequest == [sent |-> FALSE, ordering |-> None, limit |-> Absent, offset |-> Absent]
NoResponse == [count |-> 0, results |-> <<>>]

\* the admin adds a chain; the table holds it at any place
AddChain ==
    \E row \in ChainRow, at \in 1..Len(chainRows) + 1 :
        /\ ~listReq.sent
        /\ Len(chainRows) < MaxChains
        /\ \A i \in 1..Len(chainRows) : chainRows[i].id # row.id
        /\ chainRows' = SubSeq(chainRows, 1, at - 1) \o <<row>>
                        \o SubSeq(chainRows, at, Len(chainRows))
        /\ UNCHANGED <<listReq, listResp, notChain>>

DeleteChain ==
    \E at \in 1..Len(chainRows) :
        /\ ~listReq.sent
        /\ chainRows' = SubSeq(chainRows, 1, at - 1)
                        \o SubSeq(chainRows, at + 1, Len(chainRows))
        /\ UNCHANGED <<listReq, listResp, notChain>>

\* GET /chains with an ordering parameter or none
ListChains ==
    \E o \in OrderingParams :
        LET req == [sent |-> TRUE, ordering |-> o, limit |-> Absent, offset |-> Absent] IN
        /\ ~listReq.sent
        /\ listReq' = req
        /\ listResp' = list(chainRows, req)
        /\ UNCHANGED <<chainRows, notChain>>

\* GET /chains with limit and offset parameters or none
ListChainsPage ==
    \E l \in LimitParams, o \in OffsetParams :
        LET req == [sent |-> TRUE, ordering |-> None, limit |-> l, offset |-> o] IN
        /\ ~listReq.sent
        /\ listReq' = req
        /\ listResp' = list(chainRows, req)
        /\ UNCHANGED <<chainRows, notChain>>

\* the client has the response
ReturnList ==
    /\ listReq.sent
    /\ listReq' = NoRequest
    /\ listResp' = NoResponse
    /\ UNCHANGED <<chainRows, notChain>>

\* a Chain table of n rows
MaxTable == 102
TableOf(n) ==
    [i \in 1..n |-> [id |-> i,
                     relevance |-> IF i % 2 = 0 THEN 10 ELSE 50,
                     name |-> Names[(i % Len(Names)) + 1]]]
TableSizes == {0, 1, default_limit, default_limit + 1, max_limit, max_limit + 1, MaxTable}

ChainInit ==
    /\ chainRows = <<>>
    /\ listReq = NoRequest
    /\ listResp = NoResponse

ChainPageInit ==
    /\ chainRows \in {TableOf(n) : n \in TableSizes}
    /\ listReq = NoRequest
    /\ listResp = NoResponse

(***************************************************************************)
(* SafeAppsListView.get_queryset (safe_apps/views.py:36-43)                *)
(*                                                                         *)
(* A query string is a sequence of characters. "sup2" stands for the       *)
(* character U+00B2 (superscript two), for which Python's str.isdigit() is *)
(* true and str.isdecimal() is false.                                      *)
(***************************************************************************)
MaxApps == 3
MaxParamLen == 2
AppIds == 1..MaxApps
ChainIdValues == {1, 4, 10}
DecimalChars == {"0", "1", "2", "3", "4", "5", "6", "7", "8", "9"}
\* the characters for which str.isdigit() is true, among those a request uses
IsDigitChars == DecimalChars \cup {"sup2"}
ParamChars == {"1", "4", "a", "sup2"}
ParamStrings == UNION {[1..n -> ParamChars] : n \in 0..MaxParamLen}
\* request.query_params.get("chainId"): None when the parameter is absent
ChainIdParams == {None} \cup {Some(t) : t \in ParamStrings}

SafeApp == [visible : BOOLEAN, chain_ids : SUBSET ChainIdValues]

\* str.isdigit(): not empty, and every character is a digit
isdigit(t) == t # <<>> /\ \A i \in 1..Len(t) : t[i] \in IsDigitChars

\* the text of a chain id
DigitChar(d) ==
    CASE d = 0 -> "0" [] d = 1 -> "1" [] d = 2 -> "2" [] d = 3 -> "3" [] d = 4 -> "4"
      [] d = 5 -> "5" [] d = 6 -> "6" [] d = 7 -> "7" [] d = 8 -> "8" [] d = 9 -> "9"
RECURSIVE ToStr(_)
ToStr(n) == IF n < 10 THEN <<DigitChar(n)>> ELSE Append(ToStr(n \div 10), DigitChar(n % 10))

\* the lookup chain_ids__contains=[network_id] of the SafeApp model: the record's
\* chain-id collection holds the value, compared as text
chain_ids__contains(app, network_id) == \E c \in app.chain_ids : ToStr(c) = network_id

\* SafeAppsListView.get_queryset: the ids of the records of the queryset
get_queryset(table, network_id) ==
    LET visible == {a \in DOMAIN table : table[a].visible}
    IN IF network_id # None /\ isdigit(Get(network_id))
       THEN {a \in visible : chain_ids__contains(table[a], Get(network_id))}
       ELSE visible

\* the catalogue at the start: apps on the chains [1, 4], [4], [10], [10], ...
AppsInit ==
    apps = [a \in AppIds |->
               [visible |-> TRUE,
                chain_ids |-> IF a = 1 THEN {1, 4} ELSE IF a = 2 THEN {4} ELSE {10}]]

\* qParam and qResult hold the last call and its result for the table as it is
NoQuery == [called |-> FALSE, chainId |-> None]

QueryInit ==
    /\ qParam = NoQuery
    /\ qResult = {}

\* the admin shows or hides a safe app
SetVisible ==
    \E a \in AppIds :
        /\ apps' = [apps EXCEPT ![a].visible = ~@]
        /\ qParam' = NoQuery
        /\ qResult' = {}
        /\ UNCHANGED <<gasVars, walletVars, chainVars, cacheVars, colorVars>>

\* the admin changes the chains of a safe app
SetChainIds ==
    \E a \in AppIds, cs \in SUBSET ChainIdValues :
        /\ apps' = [apps EXCEPT ![a].chain_ids = cs]
        /\ qParam' = NoQuery
        /\ qResult' = {}
        /\ UNCHANGED <<gasVars, walletVars, chainVars, cacheVars, colorVars>>

\* one evaluation of get_queryset for a request
GetQueryset ==
    \E q \in ChainIdParams :
        /\ qParam' = [called |-> TRUE, chainId |-> q]
        /\ qResult' = get_queryset(apps, q)
        /\ UNCHANGED <<apps, notQuery>>

(***************************************************************************)
(* SafeAppsListView.get under cache_page(60 * 10, cache="safe-apps")       *)
(* (safe_apps/views.py:27-34): the cache is read; on a miss the view runs  *)
(* (the data-store query), and the rendered response is written to the     *)
(* cache with the timeout.                                                 *)
(***************************************************************************)
CacheTimeout == 600
MaxReqs == 2
MaxTicks == 1
TickSteps == {1, CacheTimeout - 1, CacheTimeout}
\* the cache key is made of the request's query string: /safe-apps?chainId=4
CacheKeys == {Some(<<"4">>)}

Entry(value, t) == [value |-> value, storedAt |-> t]

\* cache.get that takes an entry to be live at the very end of its timeout
cache_get_late(c, k, t) ==
    IF c[k] # None /\ t <= Get(c[k]).storedAt + CacheTimeout THEN c[k] ELSE None

\* cache.get(key): the entry when it has not expired, else None
cache_get(c, k, t) ==
    IF c[k] # None /\ t < Get(c[k]).storedAt + CacheTimeout THEN c[k] ELSE None

\* cache.add: writes only when the key holds no live entry
cache_add(c, k, value, t) ==
    IF cache_get(c, k, t) # None THEN c ELSE [c EXCEPT ![k] = Some(Entry(value, t))]

\* cache.set(key, response, timeout): the last write wins
cache_set(c, k, value, t) == [c EXCEPT ![k] = Some(Entry(value, t))]

\* a request in flight: it is about to run the view ("view"), has run the
\* query and is about to write the cache ("render"), or has its response
\* ("done", hit when the response came from the cache)
Request(pc, k, payload, hit) == [pc |-> pc, key |-> k, payload |-> payload, hit |-> hit]
One(q) == SetToBag({q})

CacheInit ==
    /\ now = 0
    /\ ticks = 0
    /\ cache = [k \in CacheKeys |-> None]
    /\ reqs = EmptyBag
    /\ first = [k \in CacheKeys |-> None]

\* FetchFromCacheMiddleware.process_request: a hit is the response, a miss
\* lets the view run
Fetch ==
    \E k \in CacheKeys :
        LET e == cache_get(cache, k, now) IN
        /\ BagCardinality(reqs) < MaxReqs
        /\ reqs' = reqs (+) One(IF e # None
                                THEN Request("done", k, Get(e).value, TRUE)
                                ELSE Request("view", k, {}, FALSE))
        /\ UNCHANGED <<now, ticks, cache, first, apps, notCache>>

\* ListAPIView.get: the data-store query of get_queryset
View ==
    \E q \in BagToSet(reqs) :
        /\ q.pc = "view"
        /\ reqs' = (reqs (-) One(q))
                   (+) One(Request("render", q.key, get_queryset(apps, q.key), FALSE))
        /\ UNCHANGED <<now, ticks, cache, first, apps, notCache>>

\* UpdateCacheMiddleware.process_response: the rendered response is written
\* to the cache and returned
Store ==
    \E q \in BagToSet(reqs) :
        LET fresh == cache_get(cache, q.key, now) = None IN
        /\ q.pc = "render"
        /\ cache' = cache_set(cache, q.key, q.payload, now)
        /\ reqs' = (reqs (-) One(q)) (+) One(Request("done", q.key, q.payload, FALSE))
        /\ first' = IF fresh THEN [first EXCEPT ![q.key] = Some(q.payload)] ELSE first
        /\ UNCHANGED <<now, ticks, apps, notCache>>

\* the response has gone to the client
Finish ==
    \E q \in BagToSet(reqs) :
        /\ q.pc = "done"
        /\ reqs' = reqs (-) One(q)
        /\ UNCHANGED <<now, ticks, cache, first, apps, notCache>>

\* time passes
Tick ==
    \E d \in TickSteps :
        /\ ticks < MaxTicks
        /\ now' = now + d
        /\ ticks' = ticks + 1
        /\ UNCHANGED <<cache, reqs, first, apps, notCache>>

(***************************************************************************)
(* color_validator (chains/models.py:10-12) on Chain.theme_text_color and  *)
(* Chain.theme_background_color (chains/models.py:69-80)                   *)
(***************************************************************************)
MaxColorLen == 8
LF == "\n"
ColorChars == {"#", "9", "f", "A", "g", LF}

\* the character class [0-9a-fA-F]
IsHex(c) == c \in DecimalChars \cup {"a", "b", "c", "d", "e", "f"}
                               \cup {"A", "B", "C", "D", "E", "F"}

\* Python's $ without re.MULTILINE: at the end of the string, or just before
\* a newline that ends the string
AtEnd(t, i) == i = Len(t) \/ (i = Len(t) - 1 /\ t[Len(t)] = LF)

\* HEX_ARGB_REGEX.search(value): ^#[0-9a-fA-F]{6}$
HEX_ARGB_REGEX(t) ==
    /\ Len(t) >= 7
    /\ t[1] = "#"
    /\ \A i \in 2..7 : IsHex(t[i])
    /\ AtEnd(t, 7)

\* RegexValidator.__call__: no ValidationError is raised
color_validator(t) == HEX_ARGB_REGEX(t)

\* the validators of theme_text_color: color_validator and, for max_length=9,
\* the MaxLengthValidator
theme_text_color_valid(t) == color_validator(t) /\ Len(t) <= 9

ColorInit ==
    /\ colorIn = <<>>
    /\ colorOk = "unchecked"

\* the admin types the colour
TypeChar ==
    \E c \in ColorChars :
        /\ colorOk = "unchecked"
        /\ Len(colorIn) < MaxColorLen
        /\ colorIn' = Append(colorIn, c)
        /\ UNCHANGED <<colorOk, notColor>>

\* Chain.full_clean runs the validators of the theme colour
ValidateColor ==
    /\ colorOk = "unchecked"
    /\ colorOk' = IF theme_text_color_valid(colorIn) THEN "valid" ELSE "invalid"
    /\ UNCHANGED <<colorIn, notColor>>

(***************************************************************************)
(* Specifications, one for each part                                       *)
(***************************************************************************)
SpecInit ==
    GasInit /\ WalletInit /\ ChainInit /\ AppsInit /\ QueryInit /\ CacheInit /\ ColorInit
SpecGasNext == WriteGasPrice \/ DeleteGasPrice
SpecGas == SpecInit /\ [][SpecGasNext]_vars

SpecWalletNext ==
    \/ CreateWallet \/ DeleteWallet \/ CreateChainPk \/ DeleteChainPk
    \/ EnableWallet \/ DisableWallet
SpecWallet == SpecInit /\ [][SpecWalletNext]_vars

SpecOrderNext == AddChain \/ DeleteChain \/ ListChains \/ ReturnList
SpecOrder == SpecInit /\ [][SpecOrderNext]_vars

SpecPageInit ==
    GasInit /\ WalletInit /\ ChainPageInit /\ AppsInit /\ QueryInit /\ CacheInit /\ ColorInit
SpecPageNext == ListChainsPage \/ ReturnList
SpecPage == SpecPageInit /\ [][SpecPageNext]_vars

SpecQueryNext == SetVisible \/ SetChainIds \/ GetQueryset
SpecQuery == SpecInit /\ [][SpecQueryNext]_vars

SpecCacheNext == Fetch \/ View \/ Store \/ Finish \/ Tick \/ SetVisible
SpecCache == SpecInit /\ [][SpecCacheNext]_vars

SpecColorNext == TypeChar \/ ValidateColor
SpecColor == SpecInit /\ [][SpecColorNext]_vars

Init == SpecInit
Next ==
    \/ SpecGasNext \/ SpecWalletNext \/ SpecOrderNext \/ ListChainsPage
    \/ SpecQueryNext \/ Fetch \/ View \/ Store \/ Finish \/ Tick \/ SpecColorNext
Spec == Init /\ [][Next]_vars

(***************************************************************************)
(* The claims                                                              *)
(***************************************************************************)
ExactlyOne(rec) == (rec.oracle_uri # None) # (rec.fixed_wei_value # None)

\* C1, as stated: whenever exactly one of oracle_uri and fixed_wei_value is
\* non-null, clean raises nothing, whatever oracle_parameter is; when both or
\* neither is set, the error map has oracle_uri and fixed_wei_value.
C1_CleanPassesOnExactlyOne ==
    gasLast.written =>
        LET rec == Get(gasLast.record) IN
        /\ ExactlyOne(rec) => gasLast.errors = {}
        /\ ~ExactlyOne(rec) => {"oracle_uri", "fixed_wei_value"} \subseteq gasLast.errors

\* C1, amended: with exactly one of the two non-null, clean raises nothing
\* unless oracle_uri is the one set and oracle_parameter is null, and then the
\* error map has oracle_parameter; with both or neither set, the error map has
\* oracle_uri and fixed_wei_value.
C1_CleanPassesOnExactlyOneWithParameter ==
    gasLast.written =>
        LET rec == Get(gasLast.record)
            lacksParameter == rec.oracle_uri # None /\ rec.oracle_parameter = None
        IN
        /\ (ExactlyOne(rec) /\ ~lacksParameter) => gasLast.errors = {}
        /\ (ExactlyOne(rec) /\ lacksParameter) => "oracle_parameter" \in gasLast.errors
        /\ ~ExactlyOne(rec) => {"oracle_uri", "fixed_wei_value"} \subseteq gasLast.errors

\* an oracle_uri alone, without an oracle_parameter, was written and rejected
C1_Witness ==
    /\ gasLast.written
    /\ Get(gasLast.record).oracle_uri # None
    /\ Get(gasLast.record).fixed_wei_value = None
    /\ Get(gasLast.record).oracle_parameter = None
    /\ gasLast.errors # {}

\* C2: every stored GasPrice has exactly one of oracle_uri and fixed_wei_value,
\* and an oracle_parameter when it has an oracle_uri; a rejected write leaves
\* the stored records as they were.
C2_StoredGasPricesValid ==
    [][/\ \A g \in gasPrices' :
            /\ ExactlyOne(g)
            /\ g.oracle_uri # None => g.oracle_parameter # None
       /\ (gasLast' # gasLast /\ gasLast'.errors # {}) => gasPrices' = gasPrices]_vars

\* a write was rejected for its missing oracle_parameter while rows are stored
C2_Witness ==
    /\ gasLast.written
    /\ gasLast.errors = {"oracle_parameter"}
    /\ \E g \in gasPrices : g.oracle_uri # None

\* C3: the error map of a rejected write has the fields of every rule the
\* record violates: oracle_uri and fixed_wei_value when not exactly one of
\* them is set, and oracle_parameter when oracle_uri is set without it.
C3_AllViolatedFieldsReported ==
    gasLast.written =>
        LET rec == Get(gasLast.record) IN
        /\ ~ExactlyOne(rec) => {"oracle_uri", "fixed_wei_value"} \subseteq gasLast.errors
        /\ (rec.oracle_uri # None /\ rec.oracle_parameter = None)
               => "oracle_parameter" \in gasLast.errors

\* C7: for every chain, its disabled wallets and its enabled wallets
\* partition the wallets.
C7_DisabledEnabledPartition ==
    \A c \in chainPks :
        LET enabled == {w \in wallets : <<w, c>> \in walletChains} IN
        /\ get_disabled_wallets(c) \cup enabled = wallets
        /\ get_disabled_wallets(c) \cap enabled = {}

\* a chain with a wallet enabled and another disabled
C7_Witness ==
    \E c \in chainPks :
        /\ \E w \in wallets : <<w, c>> \in walletChains
        /\ get_disabled_wallets(c) # {}

\* C8, as stated: for every requested limit L >= 0 the page has at most
\* min(L, 100) records, without a limit it has at most 10, and the count is
\* the number of all chains.
C8_PageAtMostMinLimit ==
    listReq.sent =>
        /\ (listReq.limit.kind = "int" /\ listReq.limit.v >= 0)
               => Len(listResp.results) <= Min(listReq.limit.v, 100)
        /\ listReq.limit.kind = "absent" => Len(listResp.results) <= 10
        /\ listResp.count = Len(chainRows)

\* C8, amended: for every requested limit L >= 1 the page has exactly
\* min(L, 100, count - offset) records (none when the offset is beyond the
\* count); a limit that is absent, zero, negative or not a number is taken to
\* be 10; the count is the number of all chains.
C8_PageAtMostMinPositiveLimit ==
    listReq.sent =>
        LET given == listReq.limit.kind = "int" /\ listReq.limit.v >= 1
            limit == IF given THEN Min(listReq.limit.v, 100) ELSE 10
            offset == IF listReq.offset.kind = "int" /\ listReq.offset.v >= 0
                      THEN listReq.offset.v ELSE 0
        IN
        /\ Len(listResp.results) = Max(0, Min(limit, Len(chainRows) - offset))
        /\ listResp.count = Len(chainRows)

\* limit=500 over more than 100 chains returned 100 records
C8_Witness ==
    /\ listReq.sent
    /\ listReq.limit = IntText(500)
    /\ Len(chainRows) > 100
    /\ Len(listResp.results) = 100

\* the terms of an ordering parameter that name relevance or name
RECURSIVE HonouredTerms(_)
HonouredTerms(terms) ==
    IF terms = <<>> THEN <<>>
    ELSE IF Head(terms).field \in {"relevance", "name"}
         THEN <<Head(terms)>> \o HonouredTerms(Tail(terms))
         ELSE HonouredTerms(Tail(terms))

\* a may come before b under the terms
RECURSIVE InOrder(_, _, _)
InOrder(a, b, terms) ==
    IF terms = <<>> THEN TRUE
    ELSE LET t == Head(terms)
             ka == IF t.field = "relevance" THEN a.relevance ELSE NameRank(a.name)
             kb == IF t.field = "relevance" THEN b.relevance ELSE NameRank(b.name)
         IN IF t.desc
            THEN ka > kb \/ (ka = kb /\ InOrder(a, b, Tail(terms)))
            ELSE ka < kb \/ (ka = kb /\ InOrder(a, b, Tail(terms)))

\* C9: without an ordering parameter the chains come sorted by relevance
\* ascending and then by name ascending; an ordering parameter is honoured for
\* its relevance and name terms, in either direction, its other terms are
\* dropped, and with none left the default ordering applies. The page holds
\* every chain once.
C9_DefaultOrdering ==
    listReq.sent =>
        LET res == listResp.results
            honoured == IF listReq.ordering = None THEN <<>>
                        ELSE HonouredTerms(Get(listReq.ordering))
        IN
        /\ Len(res) = Len(chainRows)
        /\ \A i \in 1..Len(chainRows) : \E j \in 1..Len(res) : res[j] = chainRows[i]
        /\ \A i, j \in 1..Len(res) :
               i < j =>
                   IF honoured = <<>>
                   THEN \/ res[i].relevance < res[j].relevance
                        \/ /\ res[i].relevance = res[j].relevance
                           /\ NameRank(res[i].name) <= NameRank(res[j].name)
                   ELSE InOrder(res[i], res[j], honoured)

\* relevance [50, 50, 10] with names [B, A, C] was listed as C, A, B
C9_Witness ==
    /\ listReq.sent
    /\ listReq.ordering = None
    /\ Len(chainRows) = 3
    /\ [i \in 1..3 |-> <<chainRows[i].relevance, chainRows[i].name>>]
           = <<(<<50, "B">>), (<<50, "A">>), (<<10, "C">>)>>
    /\ [i \in 1..3 |-> listResp.results[i].name] = <<"C", "A", "B">>

\* the decimal value of a text of decimal digits
DigitValue(c) == CHOOSE d \in 0..9 : DigitChar(d) = c
RECURSIVE ToInt(_)
ToInt(t) ==
    IF t = <<>> THEN 0
    ELSE 10 * ToInt(SubSeq(t, 1, Len(t) - 1)) + DigitValue(t[Len(t)])

\* C6: get_queryset returns the visible records; with a chainId made solely
\* of decimal digits, those of them whose chain_ids hold that value; with any
\* other chainId, all of them.
C6_QuerysetFilter ==
    qParam.called =>
        LET visible == {a \in AppIds : apps[a].visible}
            p == qParam.chainId
            decimal == p # None /\ Get(p) # <<>>
                       /\ \A i \in 1..Len(Get(p)) : Get(p)[i] \in DecimalChars
        IN qResult = IF decimal
                     THEN {a \in visible : ToInt(Get(p)) \in apps[a].chain_ids}
                     ELSE visible

\* the records a safe-apps response holds for a cache key
VisibleFor(table, k) ==
    IF k = None THEN {a \in AppIds : table[a].visible}
    ELSE {a \in AppIds : table[a].visible /\ 4 \in table[a].chain_ids}

\* the request a step has brought to the state q, and the one it has taken on
Arrived(q) == CopiesIn(q, reqs') > CopiesIn(q, reqs)
Left(q) == CopiesIn(q, reqs') < CopiesIn(q, reqs)
Started == BagCardinality(reqs') > BagCardinality(reqs)

C5_ResponsesInWindowAgree ==
    [][\A q \in BagToSet(reqs') :
           (Arrived(q) /\ q.pc = "done" /\ cache_get(cache, q.key, now) # None)
               => q.payload = Get(first[q.key])]_vars

\* C5, amended: every response returned for a key is the value the cache holds
\* for the key at the moment it is returned, and the value the cache holds
\* changes only by the cache write of a request that missed the cache.
C5_ResponseIsCachedValue ==
    [][/\ \A q \in BagToSet(reqs') :
            (Arrived(q) /\ q.pc = "done") =>
                /\ cache'[q.key] # None
                /\ Get(cache'[q.key]).value = q.payload
       /\ \A k \in CacheKeys :
            cache'[k] # cache[k] =>
                \E q \in BagToSet(reqs) :
                    /\ Left(q) /\ q.pc = "render" /\ q.key = k
                    /\ cache'[k] = Some([value |-> q.payload, storedAt |-> now])]_vars

\* a request that missed wrote another payload over the live entry of its key
\* and returned it
C5_Witness ==
    \E q \in BagToSet(reqs) :
        /\ q.pc = "done" /\ ~q.hit
        /\ cache_get(cache, q.key, now) = Some(Entry(q.payload, now))
        /\ first[q.key] # None
        /\ Get(first[q.key]) # q.payload

\* C10: the colour is accepted exactly when it has 7 characters, the first is
\* "#" and the other 6 are each in 0-9, a-f or A-F.
C10_HexColorIff ==
    colorOk # "unchecked" =>
        (colorOk = "valid" <=>
            /\ Len(colorIn) = 7
            /\ colorIn[1] = "#"
            /\ \A i \in 2..7 :
                   colorIn[i] \in {"0", "1", "2", "3", "4", "5", "6", "7", "8", "9",
                                   "a", "b", "c", "d", "e", "f",
                                   "A", "B", "C", "D", "E", "F"})

====
